---- MODULE Spec2Model ----
(***************************************************************************)
(* State-machine model of the front end: the axios wrapper of lib/api.ts   *)
(* (request and response interceptors), and the page components that call  *)
(* it.  The Flask backend is an external collaborator; it is modelled only *)
(* as the task and dataset tables the responses are computed from.         *)
(***************************************************************************)
EXTENDS Integers, Sequences, FiniteSets, TLC

\* ------------------------------------------------------------------ bounds
MaxReq == 4          \* requests that mounts, timer ticks and clicks issue in one behaviour
MaxEdits == 1        \* uploads and deletions of datasets submitted in one behaviour

\* --------------------------------------------------------------- constants
PollDelay == 5000    \* setInterval delay of the tasks page
DefaultTimeout == 30000   \* axios.create({ timeout })
UploadTimeout == 60000    \* the timeout of the upload request
NoToken == "null"    \* localStorage.getItem('access_token') === null
Tokens == {"jwt1", "jwt2"}
NoHeader == <<>>
Null == [null |-> TRUE]
NoError == "null"    \* the error cell holding null
TaskIds == {1}
Absent == "absent"
TaskStatus == {"pending", "running", "completed", "failed", "cancelled"}
DeletableStatus == {"completed", "failed", "cancelled"}
EmptyList == [t \in TaskIds |-> Absent]
DatasetIds == {1}
Stored == "stored"
EmptyDatasets == [d \in DatasetIds |-> Absent]
\* Result.silhouette_score: number, counted in hundredths (0.3 is 30); the
\* values on either side of every threshold the page compares with
Scores == {-20, 10, 11, 30, 31, 70, 71}
\* the longest result list the backend returns
MaxResults == 2
\* the keys of algorithmCards
Algorithms == {"DBSCAN", "IsolationForest", "KmeansPlus"}

VARIABLES
    access_token,     \* localStorage['access_token']
    location,         \* window.location.href (path)
    unloading,        \* window.location.href was assigned, document not yet replaced
    inflight,         \* requests sent and not yet settled
    nextId,           \* serial number of the next request
    response,         \* the response (or error) settled in this step, with its request
    toast,            \* the message.error / message.success call of this step
    consoleError,     \* this step passed a failure to console.error
    srvTasks,         \* backend: status of every task, Absent when deleted
    srvDatasets,      \* backend: the datasets stored, Absent when not
    isLoading,        \* AuthContext: the profile fetch is still pending
    page,             \* the page component mounted now, "none" when none is
    mounts,           \* number of component instances mounted so far
    events,           \* requests issued by mounts, timer ticks and clicks so far
    edits,            \* uploads and deletions of datasets submitted so far
    timer,            \* the setInterval registration of the tasks page
    tasksPage,        \* useState cells of TasksPage, and in shownId the
                      \* request whose response the cell tasks holds
    dashboard,        \* useState cells of Dashboard
    promiseAll,       \* the Promise.all the dashboard load awaits
    datasetsPage,     \* useState cells and the upload form of DatasetsPage
    loginPage,        \* useState cell of LoginPage
    analysisPage,     \* useState cells of AnalysisPage, and its initial load
    resultsPage       \* useState cells of ResultsPage

vars == <<access_token, location, unloading, inflight, nextId, response, toast,
          consoleError, srvTasks, srvDatasets, isLoading, page, mounts, events,
          edits, timer, tasksPage, dashboard, promiseAll, datasetsPage,
          loginPage, analysisPage, resultsPage>>

tasksVars == <<timer, tasksPage>>
dashboardVars == <<dashboard, promiseAll>>
datasetsVars == <<srvDatasets, datasetsPage>>

\* ---------------------------------------------------------------- lib/api.ts
\* `Bearer ${token}`
Bearer(token) == <<"Bearer", token>>

\* if (token) { config.headers.Authorization = ... }: null and '' are falsy
Truthy(token) == token \notin {NoToken, ""}

RequestInterceptorAlways(token) == Bearer(token)

RequestInterceptor(token) == IF Truthy(token) THEN Bearer(token) ELSE NoHeader

\* what the backend would answer to a GET served now
Snapshot(api, arg) ==
    CASE api = "getTasks" -> [tasks |-> srvTasks]
      [] api = "getTaskStatistics" ->
            [total_tasks |-> Cardinality({t \in TaskIds : srvTasks[t] # Absent})]
      [] api = "getTask" -> [task |-> [id |-> arg, status |-> srvTasks[arg]]]
      [] api = "getRunningTasks" ->
            [count |-> Cardinality({t \in TaskIds : srvTasks[t] = "running"})]
      [] api = "getResults" -> [results |-> {t \in TaskIds : srvTasks[t] = "completed"}]
      [] api = "getResultStatistics" ->
            [total_results |-> Cardinality({t \in TaskIds : srvTasks[t] = "completed"})]
      [] api = "getDatasets" -> [datasets |-> srvDatasets]
      [] api = "getDatasetStatistics" ->
            [total_datasets |-> Cardinality({d \in DatasetIds : srvDatasets[d] # Absent})]
      [] api = "previewDataset" -> [preview |-> srvDatasets[arg]]
      [] api = "getAlgorithms" -> [algorithms |-> Algorithms]
      [] api = "getAlgorithmInfo" -> [algorithm |-> [name |-> arg]]
      [] OTHER -> [applied |-> FALSE]

\* whether the backend can answer the request with a 2xx
Servable(r) ==
    /\ r.api = "getTask" => r.snap.task.status # Absent
    /\ r.api = "previewDataset" => r.snap.preview # Absent

TimeoutAllDefault(api) == DefaultTimeout

\* the timeout of the request config: the instance default, overridden by
\* uploadDataset
Timeout(api) == IF api = "uploadDataset" THEN UploadTimeout ELSE DefaultTimeout

\* the request as it leaves the client, after the request interceptor
NewRequest(id, api, arg, origin, inst) ==
    [id |-> id, api |-> api, arg |-> arg, timeout |-> Timeout(api),
     auth |-> RequestInterceptor(access_token),
     snap |-> Snapshot(api, arg), origin |-> origin, inst |-> inst]

\* an event the user or the timer starts issues n requests: counted, to bound
\* the behaviour
Event(n) == events + n <= MaxReq /\ events' = events + n /\ edits' = edits

\* the same for a dataset upload or deletion the user submits
Edit == /\ events + 1 <= MaxReq /\ events' = events + 1
        /\ edits + 1 <= MaxEdits /\ edits' = edits + 1

\* the answers a request in flight can get: a 2xx with its data, an error
\* status carrying a backend message, or no response at all
ListApis == {"getTasks", "getDatasets"}
OkResponses(r) ==
    IF r.api \in ListApis
    THEN {[status |-> 200, hasMessage |-> FALSE, hasList |-> b] : b \in BOOLEAN}
    ELSE {[status |-> 200, hasMessage |-> FALSE, hasList |-> FALSE]}
LostResponse == [status |-> 0, hasMessage |-> FALSE, hasList |-> FALSE]
ErrorResponses ==
    {[status |-> 401, hasMessage |-> TRUE, hasList |-> FALSE],
     [status |-> 500, hasMessage |-> TRUE, hasList |-> FALSE],
     LostResponse}
Mutations == {"startTask", "cancelTask", "deleteTask", "uploadDataset", "deleteDataset"}
Responses(r) ==
    IF r.api \in Mutations
    THEN IF r.snap.applied THEN OkResponses(r) \cup {LostResponse}
         ELSE ErrorResponses
    ELSE IF Servable(r) THEN OkResponses(r) \cup ErrorResponses
         ELSE ErrorResponses

\* response interceptor: (response) => response,
\* (error) => { if 401: removeItem, href = '/login' }; return Promise.reject
InterceptTokenAnyError(resp, token) == IF resp.status # 200 THEN NoToken ELSE token
InterceptToken(resp, token) == IF resp.status = 401 THEN NoToken ELSE token
InterceptLocation(resp, loc) == IF resp.status = 401 THEN "/login" ELSE loc
Settled(resp) == IF resp.status = 200 THEN "resolved" ELSE "rejected"

NoResponse ==
    [api |-> "", origin |-> "", status |-> 0, hasList |-> FALSE, settled |-> "",
     overtaken |-> FALSE]

\* the interceptor part of every delivery
Deliver(r, resp) ==
    /\ r \in inflight
    /\ resp \in Responses(r)
    /\ access_token' = InterceptToken(resp, access_token)
    /\ location' = InterceptLocation(resp, location)
    /\ unloading' = (unloading \/ resp.status = 401)
    /\ response' = [api |-> r.api, origin |-> r.origin, status |-> resp.status,
                    hasList |-> resp.hasList, settled |-> Settled(resp),
                    overtaken |-> (r.api = "getTasks" /\ r.id < tasksPage.shownId)]

\* ------------------------------------------------------------ antd message
Toast(level, text) == [level |-> level, text |-> text]
NoToast == Toast("", "")

\* a step in which no promise settles delivers nothing and shows nothing
Quiet == response' = NoResponse /\ toast' = NoToast /\ consoleError' = FALSE

\* error?.response?.data?.message || fallback
MessageOr(resp, fallback) == IF resp.hasMessage THEN "backend message" ELSE fallback

\* ---------------------------------------------- ProtectedRoute / AuthContext
ProtectedRouteLax(token, pending) == IF pending THEN "pending" ELSE "children"

\* the guard: pending while the profile fetch runs, then children or redirect
ProtectedRoute(token, pending) ==
    IF pending THEN "pending"
    ELSE IF Truthy(token) THEN "children" ELSE "redirect"

\* ------------------------------------------------------------- TasksPage
TasksPageInit ==
    [tasks |-> EmptyList, loading |-> TRUE, detailModalVisible |-> FALSE,
     selectedTask |-> Null, statistics |-> Null, refreshInterval |-> 0,
     shownId |-> 0]

NoTimer == [active |-> FALSE, delay |-> 0, inst |-> 0]

\* useState cells of Dashboard
DashboardInit == [data |-> Null, loading |-> TRUE, error |-> NoError]

\* the six requests of the dashboard load, in the order of the array
DashboardApis ==
    <<"getDatasetStatistics", "getTasks", "getResults", "getRunningTasks",
      "getTaskStatistics", "getResultStatistics">>

NoPromise == [state |-> "none", values |-> [i \in 1..Len(DashboardApis) |-> Null]]

\* useState cells of DatasetsPage and the fields of its upload form
EmptyForm == [file |-> FALSE]
DatasetsPageInit ==
    [datasets |-> EmptyDatasets, loading |-> TRUE, uploadModalVisible |-> FALSE,
     previewModalVisible |-> FALSE, previewData |-> Null, statistics |-> Null,
     form |-> EmptyForm]

\* setState of an unmounted instance changes nothing
\* useState cell of LoginPage
LoginPageInit == [loading |-> FALSE]

\* useState cells of AnalysisPage; in initial, the Promise.all of its load
AnalysisPageInit ==
    [datasets |-> EmptyDatasets, algorithms |-> {}, selectedAlgorithm |-> "",
     algorithmDetails |-> Null, createModalVisible |-> FALSE, loading |-> FALSE]

\* useState cells of ResultsPage
ResultsPageInit ==
    [results |-> <<>>, loading |-> TRUE, detailModalVisible |-> FALSE,
     selectedResult |-> Null, statistics |-> Null]

Mounted(p, inst) == page = p /\ inst = mounts
Alive(inst) == Mounted("tasks", inst)

\* the page's children are on screen
RenderedPage(p) == page = p /\ ProtectedRoute(access_token, isLoading) = "children"
Rendered == RenderedPage("tasks")

\* response.tasks || []
TasksOrEmpty(r, resp) == IF resp.hasList THEN r.snap.tasks ELSE EmptyList

\* the document has just loaded at loc: no component is mounted yet
InitAt(loc, tasks, datasets) ==
    /\ access_token \in {"jwt1", NoToken}
    /\ location = loc
    /\ unloading = FALSE
    /\ inflight = {}
    /\ nextId = 1
    /\ response = NoResponse
    /\ toast = NoToast
    /\ consoleError = FALSE
    /\ srvTasks \in tasks
    /\ srvDatasets \in datasets
    /\ isLoading = TRUE
    /\ page = "none"
    /\ mounts = 0
    /\ events = 0
    /\ edits = 0
    /\ timer = NoTimer
    /\ tasksPage = TasksPageInit
    /\ dashboard = DashboardInit
    /\ promiseAll = NoPromise
    /\ datasetsPage = DatasetsPageInit
    /\ loginPage = LoginPageInit
    /\ analysisPage = AnalysisPageInit
    /\ resultsPage = ResultsPageInit

Init ==
    InitAt("/tasks", [TaskIds -> {"pending", "completed"}],
           {[d \in DatasetIds |-> Stored]})

\* useEffect(() => { fetchTasks(); fetchStatistics(); setInterval(...) }, [])
MountTasks ==
    /\ page = "none"
    /\ location \in {"/tasks", "/other"}
    /\ Event(2)
    /\ page' = "tasks"
    /\ location' = "/tasks"
    /\ mounts' = mounts + 1
    /\ inflight' = inflight \cup
          { NewRequest(nextId, "getTasks", 0, "mount", mounts + 1),
            NewRequest(nextId + 1, "getTaskStatistics", 0, "mount", mounts + 1) }
    /\ nextId' = nextId + 2
    /\ timer' = [active |-> TRUE, delay |-> PollDelay, inst |-> mounts + 1]
    /\ tasksPage' = [TasksPageInit EXCEPT !.refreshInterval = mounts + 1]
    /\ Quiet
    /\ UNCHANGED <<access_token, unloading, srvTasks, isLoading, dashboardVars, loginPage, analysisPage, resultsPage,
                   datasetsVars>>

TickRequestsEveryList ==
    { NewRequest(nextId, "getTasks", 0, "tick", timer.inst),
      NewRequest(nextId + 1, "getDatasets", 0, "tick", timer.inst) }

\* the interval callback: fetchTasks()
TickRequests == { NewRequest(nextId, "getTasks", 0, "tick", timer.inst) }

TickCancels(reqs) == {r \in reqs : r.api # "getTasks"}

\* requests in flight the interval callback leaves in flight: all of them
TickKeeps(reqs) == reqs

Tick ==
    /\ timer.active
    /\ Event(1)
    /\ inflight' = TickKeeps(inflight) \cup TickRequests
    /\ nextId' = nextId + Cardinality(TickRequests)
    /\ Quiet
    /\ UNCHANGED <<access_token, location, unloading, srvTasks, isLoading,
                   page, mounts, timer, tasksPage, dashboardVars, loginPage, analysisPage, resultsPage, datasetsVars>>

\* the profile fetch of the auth context settles
AuthCheckDone ==
    /\ isLoading
    /\ isLoading' = FALSE
    /\ Quiet
    /\ UNCHANGED <<events, edits, access_token, location, unloading, inflight, nextId,
                   srvTasks, page, mounts, tasksVars, dashboardVars, loginPage, analysisPage, resultsPage, datasetsVars>>

CleanupForgets(t) == t

\* the effect cleanup of TasksPage: if (interval) clearInterval(interval)
Cleanup(t) == IF t.active THEN NoTimer ELSE t

\* the mounted page component goes away: its cleanup runs, its state is lost;
\* the promise its load awaits lives on
Discard(cleanup) ==
    /\ page' = "none"
    /\ timer' = cleanup
    /\ tasksPage' = TasksPageInit
    /\ dashboard' = DashboardInit
    /\ datasetsPage' = DatasetsPageInit
    /\ loginPage' = LoginPageInit
    /\ analysisPage' = AnalysisPageInit
    /\ resultsPage' = ResultsPageInit

\* the guard's redirect outcome: router.push('/login') unmounts the page
GuardRedirect ==
    /\ page \notin {"none", "login"}
    /\ ProtectedRoute(access_token, isLoading) = "redirect"
    /\ location' = "/login"
    /\ Discard(Cleanup(timer))
    /\ Quiet
    /\ UNCHANGED <<events, edits, access_token, unloading, inflight, nextId, srvTasks,
                   srvDatasets, isLoading, mounts, promiseAll>>

\* client-side navigation from page p to a page outside the model
Unmount(p, to) ==
    /\ page = p
    /\ ~unloading
    /\ location' = to
    /\ Discard(Cleanup(timer))
    /\ Quiet
    /\ UNCHANGED <<events, edits, access_token, unloading, inflight, nextId, srvTasks,
                   srvDatasets, isLoading, mounts, promiseAll>>

\* the document is replaced after window.location.href = '/login': timers and
\* requests in flight die with it
Unload ==
    /\ unloading
    /\ unloading' = FALSE
    /\ Discard(NoTimer)
    /\ promiseAll' = NoPromise
    /\ inflight' = {}
    /\ Quiet
    /\ UNCHANGED <<events, edits, access_token, location, nextId, srvTasks, srvDatasets,
                   isLoading, mounts>>

\* ----------------------------------------------------- TasksPage handlers
\* a promise settles: interceptor, then the awaiting handler up to its end
Settle(r, resp, newReqs, newToast, newConsole) ==
    /\ Deliver(r, resp)
    /\ inflight' = (inflight \ {r}) \cup newReqs
    /\ nextId' = nextId + Cardinality(newReqs)
    /\ toast' = newToast
    /\ consoleError' = newConsole
    /\ UNCHANGED <<srvTasks, srvDatasets, isLoading, page, mounts, events,
                   edits>>

\* a promise a TasksPage handler awaits settles
Complete(r, resp, newReqs, newToast, newConsole, newPage, newTimer) ==
    /\ Settle(r, resp, newReqs, newToast, newConsole)
    /\ tasksPage' = newPage
    /\ timer' = newTimer
    /\ UNCHANGED <<dashboardVars, loginPage, analysisPage, resultsPage, datasetsPage>>

FetchTasksViewAnyInstance(tp, r, resp) ==
    [tp EXCEPT !.tasks = IF resp.status = 200 THEN TasksOrEmpty(r, resp) ELSE @,
               !.shownId = IF resp.status = 200 THEN r.id ELSE @,
               !.loading = FALSE]

FetchTasksViewLatest(tp, r, resp) ==
    IF ~Alive(r.inst) THEN tp
    ELSE IF r.id < tp.shownId THEN [tp EXCEPT !.loading = FALSE]
    ELSE [tp EXCEPT !.tasks = IF resp.status = 200 THEN TasksOrEmpty(r, resp) ELSE @,
                    !.shownId = IF resp.status = 200 THEN r.id ELSE @,
                    !.loading = FALSE]

FetchTasksViewSyncsModal(tp, r, resp) ==
    IF ~Alive(r.inst) THEN tp
    ELSE [tp EXCEPT !.tasks = IF resp.status = 200 THEN TasksOrEmpty(r, resp) ELSE @,
                    !.shownId = IF resp.status = 200 THEN r.id ELSE @,
                    !.loading = FALSE,
                    !.selectedTask =
                        IF resp.status = 200 /\ @ # Null
                        THEN [id |-> @.id, status |-> TasksOrEmpty(r, resp)[@.id]]
                        ELSE @]

\* fetchTasks(), from its await on: setTasks / message.error, setLoading(false)
FetchTasksView(tp, r, resp) ==
    IF ~Alive(r.inst) THEN tp
    ELSE [tp EXCEPT !.tasks = IF resp.status = 200 THEN TasksOrEmpty(r, resp) ELSE @,
                    !.shownId = IF resp.status = 200 THEN r.id ELSE @,
                    !.loading = FALSE]

FetchTasksToast(r, resp) ==
    IF resp.status = 200 THEN NoToast
    ELSE Toast("error", "get tasks failed")

FetchTasksRetry(r, resp) ==
    IF resp.status # 200
    THEN { NewRequest(nextId, "getTasks", 0, "retry", r.inst) }
    ELSE {}

\* requests fetchTasks issues once its await has settled: none
FetchTasksFollowUp(r, resp) == {}

FetchTasksTimerStop(t, resp) == IF resp.status # 200 THEN NoTimer ELSE t

\* the interval after fetchTasks has settled: untouched
FetchTasksTimer(t, resp) == t

FetchTasksDone(r) ==
    \E resp \in Responses(r) :
        /\ r.api = "getTasks"
        /\ r.origin # "load"
        /\ Complete(r, resp, FetchTasksFollowUp(r, resp),
                    FetchTasksToast(r, resp), FALSE,
                    FetchTasksView(tasksPage, r, resp),
                    FetchTasksTimer(timer, resp))

\* fetchStatistics(), from its await on: setStatistics / console.error
FetchStatisticsView(tp, r, resp) ==
    IF Alive(r.inst) /\ resp.status = 200
    THEN [tp EXCEPT !.statistics = r.snap] ELSE tp

FetchStatisticsToast(r, resp) == NoToast

FetchStatisticsDone(r) ==
    \E resp \in Responses(r) :
        /\ r.api = "getTaskStatistics"
        /\ r.origin # "load"
        /\ Complete(r, resp, {}, FetchStatisticsToast(r, resp),
                    resp.status # 200,
                    FetchStatisticsView(tasksPage, r, resp), timer)

\* a mutation leaves the client; the backend applies it or refuses it
NewMutation(api, t, applied) ==
    [NewRequest(nextId, api, t, "click", mounts)
        EXCEPT !.snap = [applied |-> applied]]

RowActionsLax(status) ==
    IF status = "pending" THEN {"startTask"}
    ELSE IF status = "running" THEN {"cancelTask", "deleteTask"}
    ELSE IF status \in DeletableStatus THEN {"deleteTask"} ELSE {}

\* the control buttons the action column renders for a row of that status
RowActions(status) ==
    (IF status = "pending" THEN {"startTask"} ELSE {})
    \cup (IF status = "running" THEN {"cancelTask"} ELSE {})
    \cup (IF status \in DeletableStatus THEN {"deleteTask"} ELSE {})

Click(api, t, from, to) ==
    /\ Rendered
    /\ api \in RowActions(tasksPage.tasks[t])
    /\ Event(1)
    /\ \E applied \in BOOLEAN :
        /\ applied => srvTasks[t] \in from
        /\ inflight' = inflight \cup { NewMutation(api, t, applied) }
        /\ srvTasks' = IF applied THEN [srvTasks EXCEPT ![t] = to] ELSE srvTasks
    /\ nextId' = nextId + 1
    /\ Quiet
    /\ UNCHANGED <<access_token, location, unloading, isLoading, page,
                   mounts, timer, tasksPage, dashboardVars, loginPage, analysisPage, resultsPage, datasetsVars>>

\* record.status === 'pending' && onClick={() => handleStartTask(record.id)}
StartTaskClick(t) == Click("startTask", t, {"pending"}, "running")
\* record.status === 'running' && onConfirm={() => handleCancelTask(record.id)}
CancelTaskClick(t) == Click("cancelTask", t, {"running"}, "cancelled")
\* ['completed','failed','cancelled'].includes(record.status) && handleDeleteTask
DeleteTaskClick(t) == Click("deleteTask", t, DeletableStatus, Absent)

\* the re-fetches a handler issues after its mutation has succeeded
Refetch(r, apis) ==
    { NewRequest(nextId + i - 1, apis[i], 0, "after " \o r.api, r.inst)
        : i \in 1..Len(apis) }

\* handleStartTask, from its await on
StartTaskFollowUp(r, resp) ==
    IF resp.status = 200 THEN Refetch(r, <<"getTasks">>) ELSE {}

StartTaskDone(r) ==
    \E resp \in Responses(r) :
        /\ r.api = "startTask"
        /\ Complete(r, resp, StartTaskFollowUp(r, resp),
                    IF resp.status = 200
                    THEN Toast("success", "task started")
                    ELSE Toast("error", MessageOr(resp, "start task failed")),
                    FALSE, tasksPage, timer)

\* handleCancelTask, from its await on
CancelTaskFollowUp(r, resp) ==
    IF resp.status = 200 THEN Refetch(r, <<"getTasks">>) ELSE {}

CancelTaskDone(r) ==
    \E resp \in Responses(r) :
        /\ r.api = "cancelTask"
        /\ Complete(r, resp, CancelTaskFollowUp(r, resp),
                    IF resp.status = 200
                    THEN Toast("success", "task cancelled")
                    ELSE Toast("error", "cancel task failed"),
                    FALSE, tasksPage, timer)

\* handleDeleteTask, from its await on
DeleteTaskFollowUp(r, resp) ==
    IF resp.status = 200 THEN Refetch(r, <<"getTasks", "getTaskStatistics">>)
    ELSE {}

DeleteTaskViewLocal(tp, r, resp) ==
    IF resp.status = 200 /\ Alive(r.inst)
    THEN [tp EXCEPT !.tasks = [@ EXCEPT ![r.arg] = Absent]] ELSE tp

\* the view after handleDeleteTask: no state setter is called
DeleteTaskView(tp, r, resp) == tp

DeleteTaskDone(r) ==
    \E resp \in Responses(r) :
        /\ r.api = "deleteTask"
        /\ Complete(r, resp, DeleteTaskFollowUp(r, resp),
                    IF resp.status = 200
                    THEN Toast("success", "deleted")
                    ELSE Toast("error", "delete failed"),
                    FALSE, DeleteTaskView(tasksPage, r, resp), timer)

\* onClick={() => handleViewDetails(record)}
ViewDetailsClick(t) ==
    /\ Rendered
    /\ tasksPage.tasks[t] # Absent
    /\ Event(1)
    /\ inflight' = inflight \cup
          { NewRequest(nextId, "getTask", t, "click", mounts) }
    /\ nextId' = nextId + 1
    /\ Quiet
    /\ UNCHANGED <<access_token, location, unloading, srvTasks, isLoading,
                   page, mounts, timer, tasksPage, dashboardVars, loginPage, analysisPage, resultsPage, datasetsVars>>

\* handleViewDetails, from its await on
ViewDetailsView(tp, r, resp) ==
    IF Alive(r.inst) /\ resp.status = 200
    THEN [tp EXCEPT !.selectedTask = r.snap.task, !.detailModalVisible = TRUE]
    ELSE tp

ViewDetailsDone(r) ==
    \E resp \in Responses(r) :
        /\ r.api = "getTask"
        /\ Complete(r, resp, {},
                    IF resp.status = 200 THEN NoToast
                    ELSE Toast("error", "get task details failed"),
                    FALSE, ViewDetailsView(tasksPage, r, resp), timer)

\* onCancel / close button of the detail modal
CloseDetail ==
    /\ Rendered
    /\ tasksPage.detailModalVisible
    /\ tasksPage' = [tasksPage EXCEPT !.detailModalVisible = FALSE]
    /\ Quiet
    /\ UNCHANGED <<events, edits, access_token, location, unloading, inflight, nextId,
                   srvTasks, isLoading, page, mounts, timer, dashboardVars, loginPage, analysisPage, resultsPage,
                   datasetsVars>>

\* the refresh button: fetchTasks(); fetchStatistics()
Refresh ==
    /\ Rendered
    /\ Event(2)
    /\ inflight' = inflight \cup
          { NewRequest(nextId, "getTasks", 0, "refresh", mounts),
            NewRequest(nextId + 1, "getTaskStatistics", 0, "refresh", mounts) }
    /\ nextId' = nextId + 2
    /\ Quiet
    /\ UNCHANGED <<access_token, location, unloading, srvTasks, isLoading,
                   page, mounts, timer, tasksPage, dashboardVars, loginPage, analysisPage, resultsPage, datasetsVars>>

\* the backend finishes a running task on its own
BackendProgress(t) ==
    /\ srvTasks[t] = "running"
    /\ \E s \in {"completed", "failed"} : srvTasks' = [srvTasks EXCEPT ![t] = s]
    /\ Quiet
    /\ UNCHANGED <<events, edits, access_token, location, unloading, inflight, nextId,
                   isLoading, page, mounts, timer, tasksPage, dashboardVars, loginPage, analysisPage, resultsPage,
                   datasetsVars>>

\* ------------------------------------------------------------- Dashboard
InitDashboard ==
    InitAt("/", [TaskIds -> {"completed", Absent}], [DatasetIds -> {Stored, Absent}])

\* useEffect(() => { fetchDashboardData() }, []): setLoading(true) and the six
\* requests of the Promise.all; the document was loaded at /
MountDashboard ==
    /\ page = "none"
    /\ location = "/"
    /\ page' = "dashboard"
    /\ mounts' = mounts + 1
    /\ inflight' = inflight \cup
          { NewRequest(nextId + i - 1, DashboardApis[i], i, "load", mounts + 1)
              : i \in 1..Len(DashboardApis) }
    /\ nextId' = nextId + Len(DashboardApis)
    /\ dashboard' = [DashboardInit EXCEPT !.loading = TRUE]
    /\ promiseAll' = [NoPromise EXCEPT !.state = "pending"]
    /\ Quiet
    /\ UNCHANGED <<events, edits, access_token, location, unloading, srvTasks,
                   isLoading, tasksVars, datasetsVars, loginPage, analysisPage, resultsPage>>

\* Promise.all: fulfilled with all the values once every promise has
\* fulfilled, rejected with the first rejection; once settled it stays so
PromiseAll(p, r, resp) ==
    IF p.state # "pending" THEN p
    ELSE IF resp.status # 200 THEN [p EXCEPT !.state = "rejected"]
    ELSE LET values == [p.values EXCEPT ![r.arg] =
                            [data |-> r.snap, hasList |-> resp.hasList]]
         IN [state |-> IF \A i \in DOMAIN values : values[i] # Null
                       THEN "fulfilled" ELSE "pending",
             values |-> values]

\* x || 0
OrZero(x) == IF x = 0 THEN 0 ELSE x

\* the object passed to setData
DashboardData(values) ==
    [totalDatasets |-> OrZero(values[1].data.total_datasets),
     totalTasks |-> OrZero(values[5].data.total_tasks),
     totalResults |-> OrZero(values[6].data.total_results),
     runningTasks |-> OrZero(values[4].data.count),
     recentTasks |-> IF values[2].hasList THEN values[2].data.tasks ELSE EmptyList,
     recentResults |-> values[3].data.results]

\* x || fallback, x a number: 0 is falsy
OrElse(x, fallback) == IF x = 0 THEN fallback ELSE x

\* the numbers of the stats cards: data?.totalDatasets || 3, data?.totalTasks
\* || 9, data?.totalResults || 9
StatsCards(d) ==
    [datasets |-> IF d.data = Null THEN 3 ELSE OrElse(d.data.totalDatasets, 3),
     tasks |-> IF d.data = Null THEN 9 ELSE OrElse(d.data.totalTasks, 9),
     results |-> IF d.data = Null THEN 9 ELSE OrElse(d.data.totalResults, 9)]

FetchDashboardDataPartial(d, before, after, inst) ==
    IF ~Mounted("dashboard", inst) \/ before.state # "pending" THEN d
    ELSE IF after.state = "fulfilled"
    THEN [data |-> DashboardData(after.values), loading |-> FALSE, error |-> NoError]
    ELSE IF after.state = "rejected"
    THEN [data |-> [received |-> {i \in DOMAIN after.values : after.values[i] # Null}],
          loading |-> FALSE, error |-> "dashboard load failed"]
    ELSE d

\* fetchDashboardData, from its await on: setData, setError(null) / catch:
\* setError(message); finally setLoading(false)
FetchDashboardDataView(d, before, after, inst) ==
    IF ~Mounted("dashboard", inst) \/ before.state # "pending" THEN d
    ELSE IF after.state = "fulfilled"
    THEN [data |-> DashboardData(after.values), loading |-> FALSE, error |-> NoError]
    ELSE IF after.state = "rejected"
    THEN [d EXCEPT !.error = "dashboard load failed", !.loading = FALSE]
    ELSE d

\* one of the six promises settles
FetchDashboardDataDone(r) ==
    \E resp \in Responses(r) :
        /\ r.origin = "load"
        /\ Settle(r, resp, {}, NoToast,
                  promiseAll.state = "pending" /\ resp.status # 200)
        /\ promiseAll' = PromiseAll(promiseAll, r, resp)
        /\ dashboard' = FetchDashboardDataView(dashboard, promiseAll, promiseAll', r.inst)
        /\ UNCHANGED <<tasksVars, datasetsPage, loginPage, analysisPage, resultsPage>>

NextDashboard ==
    \/ MountDashboard
    \/ AuthCheckDone
    \/ GuardRedirect
    \/ Unmount("dashboard", "/other")
    \/ Unload
    \/ \E r \in inflight : FetchDashboardDataDone(r)

SpecDashboard == InitDashboard /\ [][NextDashboard]_vars

\* ----------------------------------------------------------- DatasetsPage
\* response.datasets || []
DatasetsOrEmpty(r, resp) == IF resp.hasList THEN r.snap.datasets ELSE EmptyDatasets

\* useEffect(() => { fetchDatasets(); fetchStatistics() }, [])
MountDatasets ==
    /\ page = "none"
    /\ location \in {"/datasets", "/elsewhere"}
    /\ Event(2)
    /\ page' = "datasets"
    /\ location' = "/datasets"
    /\ mounts' = mounts + 1
    /\ inflight' = inflight \cup
          { NewRequest(nextId, "getDatasets", 0, "mount", mounts + 1),
            NewRequest(nextId + 1, "getDatasetStatistics", 0, "mount", mounts + 1) }
    /\ nextId' = nextId + 2
    /\ datasetsPage' = [DatasetsPageInit EXCEPT !.loading = TRUE]
    /\ Quiet
    /\ UNCHANGED <<access_token, unloading, srvTasks, srvDatasets, isLoading,
                   tasksVars, dashboardVars, loginPage, analysisPage, resultsPage>>

\* a promise a DatasetsPage handler awaits settles
CompleteDatasets(r, resp, newReqs, newToast, newConsole, newPage) ==
    /\ Settle(r, resp, newReqs, newToast, newConsole)
    /\ datasetsPage' = newPage
    /\ UNCHANGED <<tasksVars, dashboardVars, loginPage, analysisPage, resultsPage>>

\* fetchDatasets(), from its await on
FetchDatasetsView(dp, r, resp) ==
    IF ~Mounted("datasets", r.inst) THEN dp
    ELSE [dp EXCEPT !.datasets = IF resp.status = 200
                                 THEN DatasetsOrEmpty(r, resp) ELSE @,
                    !.loading = FALSE]

FetchDatasetsDone(r) ==
    \E resp \in Responses(r) :
        /\ r.api = "getDatasets"
        /\ CompleteDatasets(r, resp, {},
                IF resp.status = 200 THEN NoToast
                ELSE Toast("error", "get datasets failed"),
                FALSE, FetchDatasetsView(datasetsPage, r, resp))

\* DatasetsPage.fetchStatistics(), from its await on
FetchDatasetStatisticsView(dp, r, resp) ==
    IF Mounted("datasets", r.inst) /\ resp.status = 200
    THEN [dp EXCEPT !.statistics = r.snap] ELSE dp

FetchDatasetStatisticsDone(r) ==
    \E resp \in Responses(r) :
        /\ r.api = "getDatasetStatistics"
        /\ r.origin # "load"
        /\ CompleteDatasets(r, resp, {}, NoToast, resp.status # 200,
                FetchDatasetStatisticsView(datasetsPage, r, resp))

\* a step of the user on the page that sends nothing
Local(newPage) ==
    /\ RenderedPage("datasets")
    /\ datasetsPage' = newPage
    /\ Quiet
    /\ UNCHANGED <<events, edits, access_token, location, unloading, inflight, nextId,
                   srvTasks, srvDatasets, isLoading, page, mounts, tasksVars,
                   dashboardVars, loginPage, analysisPage, resultsPage>>

\* onClick={() => handlePreview(record)}
PreviewClick(d) ==
    /\ RenderedPage("datasets")
    /\ datasetsPage.datasets[d] # Absent
    /\ Event(1)
    /\ inflight' = inflight \cup
          { NewRequest(nextId, "previewDataset", d, "click", mounts) }
    /\ nextId' = nextId + 1
    /\ Quiet
    /\ UNCHANGED <<access_token, location, unloading, srvTasks, isLoading, page,
                   mounts, tasksVars, dashboardVars, loginPage, analysisPage, resultsPage,
                   datasetsVars>>

PreviewViewOpens(dp, r, resp) ==
    IF Mounted("datasets", r.inst)
    THEN [dp EXCEPT !.previewModalVisible = TRUE] ELSE dp

\* handlePreview, from its await on: setPreviewData, setPreviewModalVisible
PreviewView(dp, r, resp) ==
    IF Mounted("datasets", r.inst) /\ resp.status = 200
    THEN [dp EXCEPT !.previewData = [dataset |-> r.arg, preview |-> r.snap.preview],
                    !.previewModalVisible = TRUE]
    ELSE dp

PreviewDone(r) ==
    \E resp \in Responses(r) :
        /\ r.api = "previewDataset"
        /\ CompleteDatasets(r, resp, {},
                IF resp.status = 200 THEN NoToast
                ELSE Toast("error", "preview failed"),
                FALSE, PreviewView(datasetsPage, r, resp))

\* onCancel / close button of the preview modal
ClosePreview ==
    /\ datasetsPage.previewModalVisible
    /\ Local([datasetsPage EXCEPT !.previewModalVisible = FALSE])

\* the upload button: setUploadModalVisible(true)
ShowUpload ==
    /\ ~datasetsPage.uploadModalVisible
    /\ Local([datasetsPage EXCEPT !.uploadModalVisible = TRUE])

\* the user picks a file in the form of the modal
ChooseFile ==
    /\ datasetsPage.uploadModalVisible
    /\ ~datasetsPage.form.file
    /\ Local([datasetsPage EXCEPT !.form.file = TRUE])

\* onCancel of the modal: setUploadModalVisible(false); form.resetFields()
CancelUpload ==
    /\ datasetsPage.uploadModalVisible
    /\ Local([datasetsPage EXCEPT !.uploadModalVisible = FALSE, !.form = EmptyForm])

\* the fetchDatasets() and fetchStatistics() a handler calls after its mutation
RefetchDatasets(r) ==
    { NewRequest(nextId, "getDatasets", 0, "after " \o r.api, r.inst),
      NewRequest(nextId + 1, "getDatasetStatistics", 0, "after " \o r.api, r.inst) }

\* fetchDatasets() runs up to its await at once: setLoading(true)
Refetching(dp, r) == IF Mounted("datasets", r.inst) THEN [dp EXCEPT !.loading = TRUE] ELSE dp

\* onFinish={handleUpload}, the file rule of the form satisfied: the request
\* leaves, and the backend stores the dataset or refuses it
SubmitUpload ==
    /\ RenderedPage("datasets")
    /\ datasetsPage.uploadModalVisible
    /\ datasetsPage.form.file
    /\ Edit
    /\ \E applied \in BOOLEAN :
        /\ applied => \E d \in DatasetIds : srvDatasets[d] = Absent
        /\ inflight' = inflight \cup { NewMutation("uploadDataset", 0, applied) }
        /\ srvDatasets' =
              IF applied
              THEN LET d == CHOOSE d \in DatasetIds : srvDatasets[d] = Absent
                   IN [srvDatasets EXCEPT ![d] = Stored]
              ELSE srvDatasets
    /\ nextId' = nextId + 1
    /\ Quiet
    /\ UNCHANGED <<access_token, location, unloading, srvTasks, isLoading, page,
                   mounts, tasksVars, dashboardVars, loginPage, analysisPage, resultsPage, datasetsPage>>

\* handleUpload, from its await on
UploadFollowUp(r, resp) == IF resp.status = 200 THEN RefetchDatasets(r) ELSE {}

UploadViewCloses(dp, r, resp) ==
    IF Mounted("datasets", r.inst)
    THEN [dp EXCEPT !.uploadModalVisible = FALSE, !.form = EmptyForm]
    ELSE dp

UploadView(dp, r, resp) ==
    IF resp.status = 200 /\ Mounted("datasets", r.inst)
    THEN [Refetching(dp, r) EXCEPT !.uploadModalVisible = FALSE, !.form = EmptyForm]
    ELSE dp

UploadDone(r) ==
    \E resp \in Responses(r) :
        /\ r.api = "uploadDataset"
        /\ CompleteDatasets(r, resp, UploadFollowUp(r, resp),
                IF resp.status = 200 THEN Toast("success", "uploaded")
                ELSE Toast("error", MessageOr(resp, "upload failed")),
                FALSE, UploadView(datasetsPage, r, resp))

\* onConfirm={() => handleDelete(record.id)}
DeleteDatasetClick(d) ==
    /\ RenderedPage("datasets")
    /\ datasetsPage.datasets[d] # Absent
    /\ Edit
    /\ \E applied \in BOOLEAN :
        /\ applied => srvDatasets[d] # Absent
        /\ inflight' = inflight \cup { NewMutation("deleteDataset", d, applied) }
        /\ srvDatasets' = IF applied THEN [srvDatasets EXCEPT ![d] = Absent]
                          ELSE srvDatasets
    /\ nextId' = nextId + 1
    /\ Quiet
    /\ UNCHANGED <<access_token, location, unloading, srvTasks, isLoading, page,
                   mounts, tasksVars, dashboardVars, loginPage, analysisPage, resultsPage, datasetsPage>>

\* handleDelete, from its await on
DeleteDatasetFollowUp(r, resp) == IF resp.status = 200 THEN RefetchDatasets(r) ELSE {}

DeleteDatasetView(dp, r, resp) == IF resp.status = 200 THEN Refetching(dp, r) ELSE dp

DeleteDatasetDone(r) ==
    \E resp \in Responses(r) :
        /\ r.api = "deleteDataset"
        /\ CompleteDatasets(r, resp, DeleteDatasetFollowUp(r, resp),
                IF resp.status = 200 THEN Toast("success", "deleted")
                ELSE Toast("error", "delete failed"),
                FALSE, DeleteDatasetView(datasetsPage, r, resp))

Next ==
    \/ MountTasks
    \/ Tick
    \/ AuthCheckDone
    \/ GuardRedirect
    \/ Unmount("tasks", "/other")
    \/ Unload
    \/ \E r \in inflight : FetchTasksDone(r)
    \/ \E r \in inflight : FetchStatisticsDone(r)
    \/ \E t \in TaskIds : StartTaskClick(t)
    \/ \E r \in inflight : StartTaskDone(r)
    \/ \E t \in TaskIds : CancelTaskClick(t)
    \/ \E r \in inflight : CancelTaskDone(r)
    \/ \E t \in TaskIds : DeleteTaskClick(t)
    \/ \E r \in inflight : DeleteTaskDone(r)
    \/ Refresh
    \/ \E t \in TaskIds : BackendProgress(t)

Spec == Init /\ [][Next]_vars

\* the document loaded at /datasets
InitDatasets ==
    InitAt("/datasets", {[t \in TaskIds |-> "completed"]},
           [DatasetIds -> {Stored, Absent}])

\* the tasks page with its detail modal and the datasets page with its preview
\* modal, without the mutations
NextDetail ==
    \/ MountTasks
    \/ Tick
    \/ AuthCheckDone
    \/ GuardRedirect
    \/ Unmount("tasks", "/other")
    \/ Unload
    \/ \E r \in inflight : FetchTasksDone(r)
    \/ \E r \in inflight : FetchStatisticsDone(r)
    \/ \E t \in TaskIds : ViewDetailsClick(t)
    \/ \E r \in inflight : ViewDetailsDone(r)
    \/ CloseDetail
    \/ Refresh
    \/ \E t \in TaskIds : BackendProgress(t)
    \/ MountDatasets
    \/ Unmount("datasets", "/elsewhere")
    \/ \E r \in inflight : FetchDatasetsDone(r)
    \/ \E r \in inflight : FetchDatasetStatisticsDone(r)
    \/ \E d \in DatasetIds : PreviewClick(d)
    \/ \E r \in inflight : PreviewDone(r)
    \/ ClosePreview

\* the document loaded at /tasks, a task running or finished, or at /datasets
InitDetail ==
    \/ InitAt("/tasks", [TaskIds -> {"running", "completed"}],
              {[d \in DatasetIds |-> Stored]})
    \/ InitDatasets

SpecDetail == InitDetail /\ [][NextDetail]_vars

\* the two list pages with their mutations
InitLists == Init \/ InitDatasets

NextLists ==
    \/ Next
    \/ MountDatasets
    \/ Unmount("datasets", "/elsewhere")
    \/ \E r \in inflight : FetchDatasetsDone(r)
    \/ \E r \in inflight : FetchDatasetStatisticsDone(r)
    \/ ShowUpload
    \/ ChooseFile
    \/ CancelUpload
    \/ SubmitUpload
    \/ \E r \in inflight : UploadDone(r)
    \/ \E d \in DatasetIds : DeleteDatasetClick(d)
    \/ \E r \in inflight : DeleteDatasetDone(r)

SpecLists == InitLists /\ [][NextLists]_vars

\* -------------------------------------------------------------- LoginPage
\* AuthContext: the user is authenticated when a token is stored
isAuthenticated == Truthy(access_token)

LoginPageAuthFirst(pending, authed) ==
    IF authed THEN "nothing" ELSE IF pending THEN "spinner" ELSE "form"

\* what LoginPage returns: if (isLoading) <Spin/>; if (isAuthenticated) null;
\* otherwise the card with the form
LoginPage(pending, authed) ==
    IF pending THEN "spinner" ELSE IF authed THEN "nothing" ELSE "form"

\* the document shows /login: LoginPage mounts, it issues no request
MountLogin ==
    /\ page = "none"
    /\ location = "/login"
    /\ page' = "login"
    /\ mounts' = mounts + 1
    /\ loginPage' = LoginPageInit
    /\ Quiet
    /\ UNCHANGED <<events, edits, access_token, location, unloading, inflight,
                   nextId, srvTasks, isLoading, tasksVars, dashboardVars,
                   datasetsVars, analysisPage, resultsPage>>

\* useEffect: if (!isLoading && isAuthenticated) router.push('/')
LoginEffect ==
    /\ page = "login"
    /\ ~isLoading /\ isAuthenticated
    /\ location' = "/"
    /\ Discard(Cleanup(timer))
    /\ Quiet
    /\ UNCHANGED <<events, edits, access_token, unloading, inflight, nextId,
                   srvTasks, srvDatasets, isLoading, mounts, promiseAll>>

\* onFinish up to its await: setLoading(true); login(username, password).
\* The submit button is disabled while loading.
SubmitLogin ==
    /\ page = "login"
    /\ LoginPage(isLoading, isAuthenticated) = "form"
    /\ ~loginPage.loading
    /\ Event(1)
    /\ inflight' = inflight \cup { NewRequest(nextId, "login", 0, "click", mounts) }
    /\ nextId' = nextId + 1
    /\ loginPage' = [loginPage EXCEPT !.loading = TRUE]
    /\ Quiet
    /\ UNCHANGED <<access_token, location, unloading, srvTasks, isLoading, page,
                   mounts, tasksVars, dashboardVars, datasetsVars, analysisPage, resultsPage>>

\* the answers to POST /auth/login: a token, or an error
LoginResponses ==
    {[status |-> 200, hasMessage |-> FALSE, hasList |-> FALSE, access_token |-> t]
        : t \in Tokens} \cup ErrorResponses

\* AuthContext.login: the token of the response is stored
Login(resp, token) == IF resp.status = 200 THEN resp.access_token ELSE token

\* where router.push('/') leaves the document: at / unless the document is
\* being replaced, when either navigation can win
RouterPush(to) == IF unloading THEN {location, to} ELSE {to}

\* the login promise settles: interceptor, AuthContext.login, then onFinish
\* from its await on: message.success and router.push('/'), or message.error;
\* finally setLoading(false)
LoginDone(r) ==
    \E resp \in LoginResponses :
        /\ r \in inflight
        /\ r.api = "login"
        /\ access_token' = Login(resp, InterceptToken(resp, access_token))
        /\ unloading' = (unloading \/ resp.status = 401)
        /\ response' = [api |-> r.api, origin |-> r.origin, status |-> resp.status,
                        hasList |-> FALSE, settled |-> Settled(resp),
                        overtaken |-> FALSE]
        /\ inflight' = inflight \ {r}
        /\ toast' = IF resp.status = 200
                    THEN Toast("success", "login succeeded")
                    ELSE Toast("error", MessageOr(resp, "login failed"))
        /\ consoleError' = FALSE
        /\ \E to \in (IF resp.status = 200 THEN RouterPush("/")
                       ELSE {InterceptLocation(resp, location)}) :
            /\ location' = to
            /\ IF to # location
               THEN Discard(Cleanup(timer))
               ELSE /\ loginPage' = IF Mounted("login", r.inst)
                                     THEN [loginPage EXCEPT !.loading = FALSE]
                                     ELSE loginPage
                    /\ UNCHANGED <<page, timer, tasksPage, dashboard, datasetsPage,
                                   analysisPage, resultsPage>>
        /\ UNCHANGED <<events, edits, nextId, srvTasks, srvDatasets, isLoading,
                       mounts, promiseAll>>

\* the tasks page, the redirect to the login page and a login, while requests
\* of the tasks page are in flight
InitLogin ==
    \E loc \in {"/tasks", "/login"} :
        InitAt(loc, {[t \in TaskIds |-> "completed"]}, {[d \in DatasetIds |-> Stored]})

NextLogin ==
    \/ MountTasks
    \/ Tick
    \/ AuthCheckDone
    \/ GuardRedirect
    \/ Unload
    \/ \E r \in inflight : FetchTasksDone(r)
    \/ \E r \in inflight : FetchStatisticsDone(r)
    \/ MountLogin
    \/ LoginEffect
    \/ SubmitLogin
    \/ \E r \in inflight : LoginDone(r)

SpecLogin == InitLogin /\ [][NextLogin]_vars

\* ----------------------------------------------------------- AnalysisPage
\* the two requests of fetchInitialData, in the order of the array
InitialApis == <<"getDatasets", "getAlgorithms">>

\* useEffect(() => { fetchInitialData() }, []): the Promise.all of the load
MountAnalysis ==
    /\ page = "none"
    /\ location = "/analysis"
    /\ page' = "analysis"
    /\ mounts' = mounts + 1
    /\ inflight' = inflight \cup
          { NewRequest(nextId + i - 1, InitialApis[i], i, "initial", mounts + 1)
              : i \in 1..Len(InitialApis) }
    /\ nextId' = nextId + Len(InitialApis)
    /\ analysisPage' = AnalysisPageInit
    /\ promiseAll' = [state |-> "pending",
                      values |-> [i \in 1..Len(InitialApis) |-> Null]]
    /\ Quiet
    /\ UNCHANGED <<events, edits, access_token, location, unloading, srvTasks,
                   isLoading, tasksVars, dashboard, datasetsVars, loginPage, resultsPage>>

\* a promise an AnalysisPage handler awaits settles
CompleteAnalysis(r, resp, newToast, newPage) ==
    /\ Settle(r, resp, {}, newToast, FALSE)
    /\ analysisPage' = newPage
    /\ UNCHANGED <<tasksVars, dashboard, datasetsPage, loginPage, resultsPage>>

\* fetchInitialData, from its await on: setDatasets(datasets || []),
\* setAlgorithms(algorithms || {})
FetchInitialDataView(ap, before, after, inst) ==
    IF Mounted("analysis", inst) /\ before.state = "pending"
       /\ after.state = "fulfilled"
    THEN [ap EXCEPT !.datasets = IF after.values[1].hasList
                                 THEN after.values[1].data.datasets
                                 ELSE EmptyDatasets,
                    !.algorithms = after.values[2].data.algorithms]
    ELSE ap

\* one of the two promises settles; the first rejection reaches the catch
FetchInitialDataDone(r) ==
    \E resp \in Responses(r) :
        /\ r.origin = "initial"
        /\ promiseAll' = PromiseAll(promiseAll, r, resp)
        /\ CompleteAnalysis(r, resp,
                IF promiseAll.state = "pending" /\ resp.status # 200
                THEN Toast("error", "get data failed") ELSE NoToast,
                FetchInitialDataView(analysisPage, promiseAll, promiseAll', r.inst))

\* handleAlgorithmSelect: setSelectedAlgorithm, fetchAlgorithmDetails up to its
\* await. The cards are under the mask while the modal is open.
AlgorithmSelectClick(a) ==
    /\ RenderedPage("analysis")
    /\ ~analysisPage.createModalVisible
    /\ Event(1)
    /\ inflight' = inflight \cup
          { NewRequest(nextId, "getAlgorithmInfo", a, "click", mounts) }
    /\ nextId' = nextId + 1
    /\ analysisPage' = [analysisPage EXCEPT !.selectedAlgorithm = a]
    /\ Quiet
    /\ UNCHANGED <<access_token, location, unloading, srvTasks, isLoading, page,
                   mounts, tasksVars, dashboardVars, datasetsVars, loginPage, resultsPage>>

\* fetchAlgorithmDetails, from its await on
FetchAlgorithmDetailsView(ap, r, resp) ==
    IF Mounted("analysis", r.inst) /\ resp.status = 200
    THEN [ap EXCEPT !.algorithmDetails = r.snap.algorithm]
    ELSE ap

FetchAlgorithmDetailsDone(r) ==
    \E resp \in Responses(r) :
        /\ r.api = "getAlgorithmInfo"
        /\ promiseAll' = promiseAll
        /\ CompleteAnalysis(r, resp,
                IF resp.status = 200 THEN NoToast
                ELSE Toast("error", "get algorithm details failed"),
                FetchAlgorithmDetailsView(analysisPage, r, resp))

\* handleCreateTask; the button is disabled while no algorithm is selected
CreateTaskClick ==
    /\ RenderedPage("analysis")
    /\ analysisPage.selectedAlgorithm # ""
    /\ ~analysisPage.createModalVisible
    /\ analysisPage' = [analysisPage EXCEPT !.createModalVisible = TRUE]
    /\ Quiet
    /\ UNCHANGED <<events, edits, access_token, location, unloading, inflight,
                   nextId, srvTasks, isLoading, page, mounts, tasksVars,
                   dashboardVars, datasetsVars, loginPage, resultsPage>>

\* onCancel of the modal and its cancel button
CancelCreate ==
    /\ RenderedPage("analysis")
    /\ analysisPage.createModalVisible
    /\ analysisPage' = [analysisPage EXCEPT !.createModalVisible = FALSE]
    /\ Quiet
    /\ UNCHANGED <<events, edits, access_token, location, unloading, inflight,
                   nextId, srvTasks, isLoading, page, mounts, tasksVars,
                   dashboardVars, datasetsVars, loginPage, resultsPage>>

TaskDataValuesLast(values, selected) ==
    IF values.algorithm_name # "" THEN values
    ELSE [values EXCEPT !.algorithm_name = selected]

\* { ...values, algorithm_name: selectedAlgorithm }
TaskData(values, selected) == [values EXCEPT !.algorithm_name = selected]

\* the answers to POST /tasks: the backend created the task or refused
CreateTaskResponses(r) ==
    IF r.snap.applied THEN OkResponses(r) \cup {LostResponse} ELSE ErrorResponses

\* the algorithm_name the form values can hold: none, or one that differs from
\* the cards the user of this model selects
FormAlgorithmNames == {"", "KmeansPlus"}

\* handleSubmitTask up to its await: setLoading(true), createTask(taskData);
\* the submit button is disabled while loading
SubmitTask ==
    /\ RenderedPage("analysis")
    /\ analysisPage.createModalVisible
    /\ ~analysisPage.loading
    /\ Event(1)
    /\ \E name \in FormAlgorithmNames, applied \in BOOLEAN :
        /\ applied => \E t \in TaskIds : srvTasks[t] = Absent
        /\ inflight' = inflight \cup
              { [NewRequest(nextId, "createTask",
                            TaskData([algorithm_name |-> name, dataset_id |-> 1],
                                     analysisPage.selectedAlgorithm),
                            "click", mounts)
                   EXCEPT !.snap = [applied |-> applied]] }
        /\ srvTasks' =
              IF applied
              THEN LET t == CHOOSE t \in TaskIds : srvTasks[t] = Absent
                   IN [srvTasks EXCEPT ![t] = "pending"]
              ELSE srvTasks
    /\ nextId' = nextId + 1
    /\ analysisPage' = [analysisPage EXCEPT !.loading = TRUE]
    /\ Quiet
    /\ UNCHANGED <<access_token, location, unloading, isLoading, page, mounts,
                   tasksVars, dashboardVars, srvDatasets, datasetsPage, loginPage, resultsPage>>

\* handleSubmitTask, from its await on: message.success, the modal closes /
\* message.error; finally setLoading(false)
SubmitTaskView(ap, r, resp) ==
    IF ~Mounted("analysis", r.inst) THEN ap
    ELSE [ap EXCEPT !.createModalVisible = IF resp.status = 200 THEN FALSE ELSE @,
                    !.loading = FALSE]

SubmitTaskDone(r) ==
    /\ r.api = "createTask"
    /\ \E resp \in CreateTaskResponses(r) :
        /\ promiseAll' = promiseAll
        /\ CompleteAnalysis(r, resp,
                IF resp.status = 200 THEN Toast("success", "task created")
                ELSE Toast("error", MessageOr(resp, "create task failed")),
                SubmitTaskView(analysisPage, r, resp))

\* the user selects among two of the cards, once the initial load has settled
Selectable == {"DBSCAN", "IsolationForest"}
InitialLoadSettled == \A r \in inflight : r.origin # "initial"

InitAnalysis ==
    InitAt("/analysis", {[t \in TaskIds |-> Absent]},
           {[d \in DatasetIds |-> Stored]})

NextAnalysis ==
    \/ MountAnalysis
    \/ AuthCheckDone
    \/ GuardRedirect
    \/ Unmount("analysis", "/other")
    \/ Unload
    \/ \E r \in inflight : FetchInitialDataDone(r)
    \/ \E a \in Selectable : InitialLoadSettled /\ AlgorithmSelectClick(a)
    \/ \E r \in inflight : FetchAlgorithmDetailsDone(r)
    \/ CreateTaskClick
    \/ CancelCreate
    \/ SubmitTask
    \/ \E r \in inflight : SubmitTaskDone(r)

SpecAnalysis == InitAnalysis /\ [][NextAnalysis]_vars

\* ------------------------------------------------------ app/results/page.tsx
\* the result lists GET /results can return
ResultLists ==
    UNION { [1..n -> [silhouette_score : Scores]] : n \in 0..MaxResults }

getQualityColor(score) ==
    IF score > 70 THEN "success"
    ELSE IF score > 30 THEN "processing"
    ELSE IF score > 10 THEN "warning"
    ELSE "error"

getQualityStatus(score) ==
    IF score > 70 THEN "excellent"
    ELSE IF score > 30 THEN "good"
    ELSE IF score > 10 THEN "fair"
    ELSE "poor"

\* results.filter(r => r.silhouette_score > 0.3).length
successCount(results) ==
    Cardinality({i \in 1..Len(results) : results[i].silhouette_score > 30})

warningCountOpen(results) ==
    Cardinality({i \in 1..Len(results) :
                    /\ results[i].silhouette_score > 10
                    /\ results[i].silhouette_score < 30})

\* results.filter(r => r.silhouette_score > 0.1 && r.silhouette_score <= 0.3).length
warningCount(results) ==
    Cardinality({i \in 1..Len(results) :
                    /\ results[i].silhouette_score > 10
                    /\ results[i].silhouette_score <= 30})

\* results.filter(r => r.silhouette_score <= 0.1).length
errorCount(results) ==
    Cardinality({i \in 1..Len(results) : results[i].silhouette_score <= 10})

\* the data of the pie series
getDetectionStatusChartOption(results) ==
    << [name |-> "detection success", value |-> successCount(results)],
       [name |-> "detection warning", value |-> warningCount(results)],
       [name |-> "detection error", value |-> errorCount(results)] >>

\* useEffect(() => { fetchResults(); fetchStatistics() }, []); the backend
\* holds any of the result lists, and the response may lack the results field
MountResults ==
    /\ page = "none"
    /\ location = "/results"
    /\ page' = "results"
    /\ mounts' = mounts + 1
    /\ \E rs \in ResultLists, has \in BOOLEAN :
          /\ ~has => rs = <<>>
          /\ inflight' = inflight \cup
                { [NewRequest(nextId, "getResults", 0, "results", mounts + 1)
                     EXCEPT !.snap = [hasResults |-> has, results |-> rs]],
                  [NewRequest(nextId + 1, "getResultStatistics", 0, "results",
                              mounts + 1)
                     EXCEPT !.snap = [total_results |-> Len(rs)]] }
    /\ nextId' = nextId + 2
    /\ resultsPage' = ResultsPageInit
    /\ Quiet
    /\ UNCHANGED <<events, edits, access_token, location, unloading, srvTasks,
                   isLoading, tasksVars, dashboardVars, datasetsVars, loginPage,
                   analysisPage>>

\* a promise a ResultsPage handler awaits settles
CompleteResults(r, resp, newToast, newConsole, newPage) ==
    /\ Settle(r, resp, {}, newToast, newConsole)
    /\ resultsPage' = newPage
    /\ UNCHANGED <<tasksVars, dashboardVars, datasetsPage, loginPage, analysisPage>>

\* fetchResults, from its await on: setResults(response.results || []),
\* finally setLoading(false)
FetchResultsDone(r) ==
    /\ r.api = "getResults"
    /\ r.origin = "results"
    /\ \E resp \in Responses(r) :
          CompleteResults(r, resp,
              IF resp.status = 200 THEN NoToast
              ELSE Toast("error", "get results failed"),
              FALSE,
              IF ~Mounted("results", r.inst) THEN resultsPage
              ELSE [resultsPage EXCEPT
                      !.results = IF resp.status # 200 THEN @
                                  ELSE IF r.snap.hasResults THEN r.snap.results
                                  ELSE <<>>,
                      !.loading = FALSE])

\* ResultsPage.fetchStatistics, from its await on
FetchResultStatisticsDone(r) ==
    /\ r.api = "getResultStatistics"
    /\ r.origin = "results"
    /\ \E resp \in Responses(r) :
          CompleteResults(r, resp, NoToast, resp.status # 200,
              IF Mounted("results", r.inst) /\ resp.status = 200
              THEN [resultsPage EXCEPT !.statistics = r.snap]
              ELSE resultsPage)

\* a step of the user on the results page that sends nothing
LocalResults(newPage) ==
    /\ RenderedPage("results")
    /\ ~unloading
    /\ resultsPage' = newPage
    /\ Quiet
    /\ UNCHANGED <<events, edits, access_token, location, unloading, inflight,
                   nextId, srvTasks, isLoading, page, mounts, tasksVars,
                   dashboardVars, datasetsVars, loginPage, analysisPage>>

\* the eye button of row i
handleViewDetails(i) ==
    /\ i \in 1..Len(resultsPage.results)
    /\ ~resultsPage.detailModalVisible
    /\ LocalResults([resultsPage EXCEPT !.selectedResult = resultsPage.results[i],
                                        !.detailModalVisible = TRUE])

\* onCancel and the close button of the detail modal
CloseResultDetail ==
    /\ resultsPage.detailModalVisible
    /\ LocalResults([resultsPage EXCEPT !.detailModalVisible = FALSE])

NextResults ==
    \/ MountResults
    \/ AuthCheckDone
    \/ GuardRedirect
    \/ Unload
    \/ \E r \in inflight : FetchResultsDone(r)
    \/ \E r \in inflight : FetchResultStatisticsDone(r)
    \/ \E i \in 1..MaxResults : handleViewDetails(i)
    \/ CloseResultDetail

\* the document loads at /results
SpecResults ==
    /\ InitAt("/results", {[t \in TaskIds |-> Absent]},
              {[d \in DatasetIds |-> Absent]})
    /\ [][NextResults]_vars


\* the page component whose handler awaits the request
Owner(r) ==
    IF r.origin = "load" THEN "dashboard"
    ELSE IF r.api \in {"getDatasets", "getDatasetStatistics", "uploadDataset",
                       "deleteDataset"}
    THEN "datasets" ELSE "tasks"

\* the tasks page and the datasets page, the user moving from one to the other
\* through the menu while requests are in flight
InitPages ==
    \E loc \in {"/tasks", "/datasets"} :
        InitAt(loc, {[t \in TaskIds |-> "completed"]}, {[d \in DatasetIds |-> Stored]})

NextPages ==
    \/ MountTasks
    \/ MountDatasets
    \/ Tick
    \/ Refresh
    \/ AuthCheckDone
    \/ GuardRedirect
    \/ Unmount("tasks", "/elsewhere")
    \/ Unmount("datasets", "/other")
    \/ Unload
    \/ \E r \in inflight : FetchTasksDone(r)
    \/ \E r \in inflight : FetchStatisticsDone(r)
    \/ \E r \in inflight : FetchDatasetsDone(r)
    \/ \E r \in inflight : FetchDatasetStatisticsDone(r)
    \/ \E d \in DatasetIds : DeleteDatasetClick(d)
    \/ \E r \in inflight : DeleteDatasetDone(r)

SpecPages == InitPages /\ [][NextPages]_vars

TypeOK ==
    /\ access_token \in Tokens \cup {NoToken}
    /\ location \in {"/", "/tasks", "/datasets", "/login", "/other", "/elsewhere",
                    "/analysis", "/results"}
    /\ page \in {"none", "tasks", "dashboard", "datasets", "login", "analysis",
                "results"}
    /\ analysisPage.selectedAlgorithm \in Algorithms \cup {""}
    /\ loginPage \in [loading : BOOLEAN]
    /\ resultsPage.loading \in BOOLEAN
    /\ edits <= MaxEdits
    /\ events <= MaxReq
    /\ \A r \in inflight : r.id < nextId

\* ------------------------------------------------------------ vocabulary
\* a promise settled in the step
Delivered == response' # NoResponse /\ response'.api # ""
Failed == Delivered /\ response'.status # 200
\* the requests the step sent
Sent == {r \in inflight' : r.id >= nextId}
\* the request whose promise settled in the step
Settling == inflight \ inflight'

\* C1: a 401 response removes access_token, sets the location to /login and
\* still rejects the caller's promise; any other failure, with a status or
\* without a response, leaves the token and the location as they were.
C1_Unauthorized ==
    [][ Failed =>
          /\ response'.settled = "rejected"
          /\ IF response'.status = 401
             THEN access_token' = NoToken /\ location' = "/login"
             ELSE access_token' = access_token /\ location' = location ]_vars

\* a 401 has just removed a token that an earlier request was sent with
C1_Witness ==
    /\ response.status = 401
    /\ response.settled = "rejected"
    /\ access_token = NoToken
    /\ location = "/login"
    /\ \E r \in inflight : r.auth = Bearer("jwt1")

\* C2: a request carries Authorization = Bearer <t>, t the token stored when
\* the request is issued, exactly when a token is stored then; without a
\* stored token it is sent all the same, with no such header.
C2_BearerHeader ==
    [][ \A r \in Sent :
          r.auth = IF access_token # NoToken
                   THEN <<"Bearer", access_token>> ELSE <<>> ]_vars

\* requests sent with and without the header are in flight together
C2_Witness ==
    /\ \E r \in inflight : r.auth = <<"Bearer", "jwt1">>
    /\ \E r \in inflight : r.auth = <<>>
    /\ access_token = NoToken

\* C3: once the profile fetch is no longer pending the guard has exactly two
\* outcomes, children or redirect; it never renders the children without a
\* token, and without a token it redirects.
C3_Guard ==
    LET outcome == ProtectedRoute(access_token, isLoading) IN
    /\ ~isLoading => outcome \in {"children", "redirect"}
    /\ outcome = "children" => access_token # NoToken
    /\ Rendered => access_token # NoToken
    /\ access_token = NoToken /\ ~isLoading => outcome = "redirect"

\* the guard has redirected a page mounted without a token to /login
C3_Witness ==
    /\ access_token = NoToken
    /\ ~isLoading
    /\ page = "none"
    /\ mounts = 1
    /\ location = "/login"
    /\ ~unloading
    /\ inflight # {}

\* C4: while the tasks page is mounted its interval runs with the fixed delay;
\* the mount issues getTasks once and every interval callback issues it once;
\* a failed getTasks neither clears the interval nor changes its delay.
C4_FixedPolling ==
    /\ [](page = "tasks" => timer.active /\ timer.delay = PollDelay)
    /\ [][ /\ mounts' # mounts =>
                Cardinality({r \in Sent : r.api = "getTasks"}) = 1
           /\ (\E r \in Sent : r.origin = "tick") =>
                /\ Cardinality(Sent) = 1
                /\ \A r \in Sent : r.api = "getTasks"
                /\ timer' = timer
           /\ Failed /\ response'.api = "getTasks" => timer' = timer ]_vars

\* a getTasks issued by the interval has failed and the interval still runs
C4_Witness ==
    /\ response.api = "getTasks"
    /\ response.origin = "tick"
    /\ response.status # 200
    /\ page = "tasks"
    /\ timer.active
    /\ timer.delay = PollDelay

\* C5: the interval callback issues getTasks whatever is in flight, and neither
\* it nor the refresh button cancels a request sent earlier.
C5_NoDedup ==
    /\ [](timer.active /\ events < MaxReq => ENABLED Tick)
    /\ [][ (\E r \in Sent : r.origin \in {"tick", "refresh"}) =>
              inflight \subseteq inflight' ]_vars

\* two getTasks requests are outstanding, the later one sent by the interval
C5_Witness ==
    \E r1, r2 \in inflight :
        /\ r1.api = "getTasks" /\ r2.api = "getTasks"
        /\ r1.id < r2.id
        /\ r2.origin = "tick"

\* C6: a successful getTasks response replaces the list when it arrives,
\* whatever the order in which the requests were issued.
C6_ArrivalOrder ==
    [][ Delivered /\ response'.api = "getTasks" /\ response'.status = 200 =>
          \A r \in Settling :
              Alive(r.inst) =>
                  tasksPage'.tasks =
                      IF response'.hasList THEN r.snap.tasks ELSE EmptyList ]_vars

\* the list shows the response of a request issued before the one it showed,
\* and differs from the backend's table
C6_Witness ==
    /\ response.api = "getTasks"
    /\ response.status = 200
    /\ response.hasList
    /\ response.overtaken
    /\ page = "tasks"
    /\ tasksPage.tasks # srvTasks
    /\ ~ \E r \in inflight : r.api = "getTasks"

\* C7: every failed request of a page produces a message.error toast.
C7_EveryFailureToasts ==
    response.api # "" /\ response.status # 200 => toast.level = "error"

\* C8: a step in which a request fails issues no request; requests are issued
\* only by a mount, a tick, a click or the handler of a successful mutation,
\* and never twice for the same call in one step.
C8_NoRetry ==
    [][ /\ Failed => Sent = {}
        /\ Sent # {} => events' # events \/ (Delivered /\ response'.status = 200)
        /\ \A r1, r2 \in Sent : r1.api = r2.api => r1 = r2 ]_vars

\* a getTasks has failed and no getTasks is in flight
C8_Witness ==
    /\ response.api = "getTasks"
    /\ response.status # 200
    /\ page = "tasks"
    /\ ~ \E r \in inflight : r.api = "getTasks"

\* a list of a mounted page changes only by taking the payload of a
\* successful list response
ListReplacedOnly ==
    page' = page /\ mounts' = mounts =>
        /\ tasksPage'.tasks # tasksPage.tasks =>
              /\ Delivered
              /\ response'.api = "getTasks"
              /\ response'.status = 200
              /\ \E r \in Settling :
                    tasksPage'.tasks =
                        IF response'.hasList THEN r.snap.tasks ELSE EmptyList
        /\ datasetsPage'.datasets # datasetsPage.datasets =>
              /\ Delivered
              /\ response'.api = "getDatasets"
              /\ response'.status = 200
              /\ \E r \in Settling :
                    datasetsPage'.datasets =
                        IF response'.hasList THEN r.snap.datasets ELSE EmptyDatasets

\* the handler of a successful mutation issues a re-fetch of its page's list
RefetchAfterMutation ==
    Delivered /\ response'.api \in Mutations /\ response'.status = 200
    => \E r \in Sent :
          /\ r.api = IF response'.api \in {"uploadDataset", "deleteDataset"}
                     THEN "getDatasets" ELSE "getTasks"
          /\ r.origin = "after " \o response'.api

\* a row the backend has deleted leaves the list only with the response to the
\* re-fetch that followed the deletion
VisibleUntilRefetch ==
    page' = page /\ mounts' = mounts /\ response'.hasList =>
        /\ \A t \in TaskIds :
              /\ srvTasks[t] = Absent
              /\ tasksPage.tasks[t] # Absent
              /\ tasksPage'.tasks[t] = Absent
              => response'.origin = "after deleteTask"
        /\ \A d \in DatasetIds :
              /\ srvDatasets[d] = Absent
              /\ datasetsPage.datasets[d] # Absent
              /\ datasetsPage'.datasets[d] = Absent
              => response'.origin = "after deleteDataset"

\* C9: on the dashboard the data cell is set only by the step in which the
\* last of the six requests succeeds, all six having succeeded, and error is
\* then null; a failure leaves data as it was and sets error; loading is false
\* once the load has settled either way.
C9_AllOrNothing ==
    /\ [](page = "dashboard" =>
            /\ dashboard.data # Null =>
                  /\ \A i \in DOMAIN promiseAll.values : promiseAll.values[i] # Null
                  /\ dashboard.error = NoError
            /\ dashboard.error # NoError => dashboard.data = Null
            /\ dashboard.loading <=> promiseAll.state = "pending")
    /\ [][ page = "dashboard" /\ page' = "dashboard" =>
             /\ Failed =>
                   /\ dashboard'.data = dashboard.data
                   /\ dashboard'.error = "dashboard load failed"
                   /\ ~dashboard'.loading
             /\ dashboard'.data # dashboard.data =>
                   /\ Delivered /\ response'.status = 200
                   /\ inflight' = {}
                   /\ dashboard'.error = NoError
                   /\ ~dashboard'.loading ]_vars

\* one request of the load has failed after others had succeeded: error is
\* set, data is still null, loading is false
C9_Witness ==
    /\ page = "dashboard"
    /\ response.api # ""
    /\ response.status # 200
    /\ \E i \in DOMAIN promiseAll.values : promiseAll.values[i] # Null
    /\ dashboard.data = Null
    /\ dashboard.error = "dashboard load failed"
    /\ ~dashboard.loading

OwnViewStateOnly ==
    Delivered =>
        \A r \in Settling :
            /\ Owner(r) # "tasks" \/ ~Mounted("tasks", r.inst) =>
                  tasksPage' = tasksPage /\ timer' = timer
            /\ Owner(r) # "datasets" \/ ~Mounted("datasets", r.inst) =>
                  datasetsPage' = datasetsPage
            /\ Owner(r) # "dashboard" \/ ~Mounted("dashboard", r.inst) =>
                  dashboard' = dashboard

\* C11 as stated: a settling request writes only the view state of the page
\* that issued it, and nothing that other requests or pages read.
C11_Original ==
    [][ /\ OwnViewStateOnly
        /\ Delivered => /\ access_token' = access_token
                        /\ location' = location
                        /\ unloading' = unloading ]_vars

\* C11 amended: a settling request writes only the view state of the page that
\* issued it, except that a 401 also removes the stored token, which every
\* later request of every page reads, and sets the location of the window.
C11_OwnViewState ==
    [][ /\ OwnViewStateOnly
        /\ Delivered /\ response'.status # 401 =>
              /\ access_token' = access_token
              /\ location' = location
              /\ unloading' = unloading ]_vars

\* a response to a request of the tasks page has arrived while the datasets
\* page is mounted and has loaded its list
C11_Witness ==
    /\ page = "datasets"
    /\ response.api = "getTasks"
    /\ response.status = 200
    /\ ~datasetsPage.loading
    /\ tasksPage = TasksPageInit

\* C12: after a successful dashboard load the three count cards show the
\* totals the responses of the load reported.
C12_CardsShowTotals ==
    page = "dashboard" /\ promiseAll.state = "fulfilled" /\ ~dashboard.loading =>
        /\ StatsCards(dashboard).datasets = promiseAll.values[1].data.total_datasets
        /\ StatsCards(dashboard).tasks = promiseAll.values[5].data.total_tasks
        /\ StatsCards(dashboard).results = promiseAll.values[6].data.total_results

\* C13: when a request sent with the stored token is answered 401, the step
\* leaves a fresh token stored and the user where they were, with no login.
C13_TokenRefreshed ==
    [][ Failed /\ response'.status = 401 /\ access_token # NoToken =>
          /\ access_token' \in Tokens
          /\ access_token' # access_token
          /\ location' = location ]_vars

C16_Cached ==
    [][ \A r \in Sent : r.api = "getTasks" => tasksPage.shownId = 0 ]_vars

\* C17: the login page renders the form exactly when the auth check is finished
\* and the user is not authenticated; while the check is pending it renders
\* the spinner and the location stays; once the check is finished and the user
\* is authenticated it renders nothing and its effect navigates to /, and the
\* effect navigates in no other case.
C17_LoginRender ==
    /\ [](page = "login" =>
            /\ LoginPage(isLoading, isAuthenticated) = "form"
                  <=> ~isLoading /\ ~isAuthenticated
            /\ isLoading => LoginPage(isLoading, isAuthenticated) = "spinner"
            /\ ~isLoading /\ isAuthenticated =>
                  /\ LoginPage(isLoading, isAuthenticated) = "nothing"
                  /\ ENABLED LoginEffect)
    /\ [][ /\ page = "login" /\ isLoading => location' = location
           /\ page = "login" /\ location' = "/" /\ ~Delivered =>
                ~isLoading /\ isAuthenticated ]_vars

\* the login page was opened with a token stored; the check finished and the
\* effect has navigated to /
C17_Witness ==
    /\ location = "/"
    /\ page = "none"
    /\ mounts = 1
    /\ events = 0
    /\ ~isLoading /\ isAuthenticated

\* C18: a row offers exactly one control action, start for pending, cancel for
\* running, delete for completed, failed or cancelled; startTask, cancelTask and
\* deleteTask are sent only by the mounted tasks page for a task whose status in
\* the list it shows permits the action.
C18_OneRowAction ==
    /\ [](\A s \in TaskStatus :
            /\ Cardinality(RowActions(s)) = 1
            /\ "startTask" \in RowActions(s) <=> s = "pending"
            /\ "cancelTask" \in RowActions(s) <=> s = "running"
            /\ "deleteTask" \in RowActions(s)
                  <=> s \in {"completed", "failed", "cancelled"})
    /\ [][ \A r \in Sent :
              r.api \in {"startTask", "cancelTask", "deleteTask"} =>
                  /\ Mounted("tasks", r.inst)
                  /\ r.api = "startTask" => tasksPage.tasks[r.arg] = "pending"
                  /\ r.api = "cancelTask" => tasksPage.tasks[r.arg] = "running"
                  /\ r.api = "deleteTask" =>
                        tasksPage.tasks[r.arg] \in {"completed", "failed", "cancelled"}
         ]_vars

\* a cancelTask is in flight for a task the list shows as running, which the
\* backend has finished meanwhile
C18_Witness ==
    \E r \in inflight :
        /\ r.api = "cancelTask"
        /\ tasksPage.tasks[r.arg] = "running"
        /\ srvTasks[r.arg] \in {"completed", "failed"}

\* C19: the step that unmounts the tasks page clears its interval; while no
\* tasks page is mounted no interval is active, whatever responses arrive, and
\* the interval callback sends getTasks only for the instance that is mounted.
C19_ClearedOnUnmount ==
    /\ [](page # "tasks" => ~timer.active)
    /\ [][ /\ page = "tasks" /\ page' # "tasks" => timer' = NoTimer
           /\ page # "tasks" /\ page' # "tasks" =>
                /\ timer' = NoTimer
                /\ \A r \in Sent : r.origin # "tick"
           /\ \A r \in Sent :
                r.origin = "tick" =>
                    /\ r.api = "getTasks"
                    /\ Mounted("tasks", r.inst)
                    /\ timer.active /\ timer.inst = r.inst ]_vars

\* the tasks page was unmounted with a getTasks in flight; the answer to one
\* the interval had sent has just arrived and no interval is active
C19_Witness ==
    /\ page = "none"
    /\ location = "/other"
    /\ timer = NoTimer
    /\ response.api = "getTasks"
    /\ response.origin = "tick"
    /\ \E r \in inflight : r.api = "getTasks"

\* C20: a stored token is removed only by a 401 that answers a request sent
\* with that same token.
C20_TokenSurvives ==
    [][ access_token # NoToken /\ access_token' = NoToken =>
          /\ Failed /\ response'.status = 401
          /\ \A r \in Settling : r.auth = Bearer(access_token) ]_vars

\* C21: when startTask, cancelTask, deleteTask, deleteDataset or uploadDataset
\* fails, the handler sends no request and changes no view state: the lists and
\* statistics shown stay, the interval stays, and the upload modal stays open
\* with its form values.
C21_FailedMutation ==
    [][ Failed /\ response'.api \in Mutations =>
          /\ Sent = {}
          /\ tasksPage' = tasksPage
          /\ timer' = timer
          /\ datasetsPage' = datasetsPage
          /\ page' = page ]_vars

\* an upload has just failed: the modal is open and the chosen file is kept
C21_Witness ==
    /\ page = "datasets"
    /\ response.api = "uploadDataset"
    /\ response.status # 200
    /\ toast.level = "error"
    /\ datasetsPage.uploadModalVisible
    /\ datasetsPage.form.file
    /\ \A r \in inflight : r.origin # "after uploadDataset"

\* C22: on the analysis page, when no getAlgorithmInfo request is outstanding
\* and one has succeeded, the details shown are those of the selected
\* algorithm.
C22_DetailsOfSelected ==
    /\ page = "analysis"
    /\ \A r \in inflight : r.api # "getAlgorithmInfo"
    /\ analysisPage.algorithmDetails # Null
    => analysisPage.algorithmDetails.name = analysisPage.selectedAlgorithm

\* C23: the create-task modal is open only while an algorithm is selected, and
\* every createTask request carries as algorithm_name the algorithm selected
\* when it is submitted, whatever algorithm_name the form values hold.
C23_SelectedAlgorithmSent ==
    /\ [](analysisPage.createModalVisible =>
            analysisPage.selectedAlgorithm \in Algorithms)
    /\ [][ \A r \in Sent :
              r.api = "createTask" =>
                  /\ analysisPage.createModalVisible
                  /\ r.arg.algorithm_name = analysisPage.selectedAlgorithm
                  /\ r.arg.algorithm_name \in Algorithms ]_vars

\* a createTask is in flight from the open modal, for the algorithm selected
\* second
C23_Witness ==
    /\ page = "analysis"
    /\ analysisPage.createModalVisible
    /\ analysisPage.loading
    /\ analysisPage.selectedAlgorithm = "DBSCAN"
    /\ \E r \in inflight : r.api = "getAlgorithmInfo" /\ r.arg = "IsolationForest"
    /\ \E r \in inflight : r.api = "createTask" /\ r.arg.algorithm_name = "DBSCAN"

\* C24: the preview modal is open only with preview data held and the detail
\* modal only with a task held; a modal opens only in the step that delivers a
\* successful previewDataset or getTask, which also sets the data held; a
\* failed previewDataset or getTask changes neither the flag nor the data.
C24_OpensOnSuccess ==
    /\ [](/\ datasetsPage.previewModalVisible => datasetsPage.previewData # Null
          /\ tasksPage.detailModalVisible => tasksPage.selectedTask # Null)
    /\ [][ /\ ~datasetsPage.previewModalVisible /\ datasetsPage'.previewModalVisible
                => /\ Delivered
                   /\ response'.api = "previewDataset" /\ response'.status = 200
                   /\ \A r \in Settling :
                         datasetsPage'.previewData =
                             [dataset |-> r.arg, preview |-> r.snap.preview]
           /\ ~tasksPage.detailModalVisible /\ tasksPage'.detailModalVisible
                => /\ Delivered
                   /\ response'.api = "getTask" /\ response'.status = 200
                   /\ \A r \in Settling : tasksPage'.selectedTask = r.snap.task
           /\ Failed /\ response'.api \in {"previewDataset", "getTask"}
                => /\ datasetsPage' = datasetsPage
                   /\ tasksPage' = tasksPage ]_vars

\* a second preview has just failed under the open modal of the first: the
\* modal still shows the data of the first
C24_Witness ==
    /\ page = "datasets"
    /\ response.api = "previewDataset"
    /\ response.status # 200
    /\ datasetsPage.previewModalVisible
    /\ datasetsPage.previewData # Null

\* C25: a getTasks response, whatever issued the request, leaves selectedTask,
\* detailModalVisible and statistics as they were; it changes the list and the
\* loading flag only.
C25_ModalNotPolled ==
    [][ Delivered /\ response'.api = "getTasks" =>
          /\ tasksPage'.selectedTask = tasksPage.selectedTask
          /\ tasksPage'.detailModalVisible = tasksPage.detailModalVisible
          /\ tasksPage'.statistics = tasksPage.statistics
          /\ tasksPage'.refreshInterval = tasksPage.refreshInterval ]_vars

\* the open modal shows the task as running; a getTasks response has just put
\* the finished task in its row of the table
C25_Witness ==
    /\ page = "tasks"
    /\ response.api = "getTasks"
    /\ response.status = 200
    /\ tasksPage.detailModalVisible
    /\ tasksPage.selectedTask # Null
    /\ tasksPage.selectedTask.status = "running"
    /\ tasksPage.tasks[tasksPage.selectedTask.id] \in {"completed", "failed"}

\* C26: when the login promise settles the loading flag ends false; the step
\* navigates to / only if login resolved; after a rejection the page stays on
\* the login form, the document is not replaced, and the error toast shows the
\* backend's message or the default text.
C26_SubmitEnds ==
    [][ Delivered /\ response'.api = "login" =>
          /\ ~loginPage'.loading
          /\ location' = "/" => response'.status = 200
          /\ response'.status # 200 =>
                /\ location' = "/login"
                /\ ~unloading'
                /\ toast'.level = "error"
                /\ toast'.text \in {"backend message", "login failed"}
                /\ \A r \in Settling :
                      Mounted("login", r.inst) =>
                          /\ page' = "login"
                          /\ LoginPage(isLoading', isAuthenticated') = "form"
      ]_vars

\* C27: the three counts of the detection-status pie sum to the number of
\* results held, every result is counted in exactly one of the three buckets,
\* and a result is in the success bucket exactly when its row is rated above
\* 0.3 (success or processing), in the warning bucket exactly when rated
\* warning, in the error bucket exactly when rated error.
C27_PiePartitions ==
    LET results == resultsPage.results
        pie == getDetectionStatusChartOption(results)
    IN  /\ pie[1].value + pie[2].value + pie[3].value = Len(results)
        /\ \A i \in 1..Len(results) :
              LET score == results[i].silhouette_score
                  own == getDetectionStatusChartOption(<<results[i]>>)
              IN  /\ own[1].value + own[2].value + own[3].value = 1
                  /\ own[1].value = 1 <=>
                        /\ getQualityColor(score) \in {"success", "processing"}
                        /\ getQualityStatus(score) \in {"excellent", "good"}
                  /\ own[2].value = 1 <=>
                        /\ getQualityColor(score) = "warning"
                        /\ getQualityStatus(score) = "fair"
                  /\ own[3].value = 1 <=>
                        /\ getQualityColor(score) = "error"
                        /\ getQualityStatus(score) = "poor"

\* the page shows a loaded list holding a score on each of the two thresholds
C27_Witness ==
    /\ RenderedPage("results")
    /\ ~resultsPage.loading
    /\ \E i, j \in 1..Len(resultsPage.results) :
          /\ resultsPage.results[i].silhouette_score = 30
          /\ resultsPage.results[j].silhouette_score = 10

====
